---- MODULE Spec2Model ----
(***************************************************************************)
(* Model of scp.py: the handler class returned by get_handler().  One      *)
(* request is handled at a time (socketserver.TCPServer is synchronous),   *)
(* so every request is one atomic step.  The state is the closure of       *)
(* get_handler (amt, datastore) plus what the last request read and wrote. *)
(***************************************************************************)
EXTENDS Integers, Sequences, FiniteSets, TLC

VARIABLES
    amt,        \* config["amt"].encode(): the HMAC key
    datastore,  \* the dict of get_handler, in insertion order: <<[instance, ds], ...>>
    request,    \* the request handled last: [method, headers, body]
    steps,      \* what the last handler did, in order (body read, status lines, writes, store updates)
    response,   \* the chunks the last POST wrote to wfile after the headers
    document,   \* the lines the last GET wrote to wfile after the headers
    outcome,    \* how the last handler ended: returned after a reply, after fail(), or raised
    before,     \* history: datastore as it was when the last request arrived
    merged,     \* history: the latest VEHICLE_STATE event merged before the last request
    named,      \* history: the ids named by the VEHICLE_STATE events that passed the checks
    firstNamed, \* history: those ids in the order in which they were first named
    scraped,    \* history: the document of the latest GET before the last request
    handled     \* number of requests handled so far

vars == <<amt, datastore, request, steps, response, document, outcome,
          before, merged, named, firstNamed, scraped, handled>>

-----------------------------------------------------------------------------
(* Bounds and input domains *)

MaxRequests == 3

Secrets == {"s3cret", "hunter2"}

VehicleIds == {"v1", "v2"}

(* JSON scalars are tagged with their JSON type. *)
JStr(s) == [t |-> "str", s |-> s]
JNum(n) == [t |-> "num", n |-> n]
JBool(b) == [t |-> "bool", b |-> b]

(* SmartCarSignal values.  body is a dict that may or may not carry unit. *)
Sig(code, st, value, ts) ==
    [code |-> code, status |-> [value |-> st],
     body |-> [value |-> value], meta |-> [oemUpdatedAt |-> ts]]

SigU(code, st, value, unit, ts) ==
    [code |-> code, status |-> [value |-> st],
     body |-> [value |-> value, unit |-> unit], meta |-> [oemUpdatedAt |-> ts]]

SignalLists ==
    { << SigU("odometer-traveleddistance", "SUCCESS", JNum(123), "km", 1700999),
         Sig("closure-islocked", "SUCCESS", JBool(TRUE), 2000),
         SigU("tractionbattery-stateofcharge", "ERROR", JNum(80), "percent", 2000),
         Sig("tirepressure-frontleft", "SUCCESS", JNum(2), 2000),
         Sig("closure-islocked", "SUCCESS", JBool(TRUE), 2000) >>,
      << Sig("connectivitystatus-isonline", "SUCCESS", JBool(FALSE), -1),
         Sig("connectivitystatus-isasleep", "SUCCESS", JNum(1), 999),
         Sig("connectivitystatus-isdigitalkeypaired", "SUCCESS", JStr("yes"), 1000),
         SigU("tractionbattery-stateofcharge", "SUCCESS", JNum(0), "percent", 1001) >> }

(* SmartCarVehicle values: the same id may arrive with different attributes. *)
Vehicles ==
    { [id |-> "v1", make |-> "TESLA"], [id |-> "v1", make |-> "VOLVO"],
      [id |-> "v2", make |-> "TESLA"] }

VehicleInputs == Vehicles \cup { [make |-> "TESLA"] }

Users == {"u1"}

(* The data object of a VEHICLE_STATE event: a vehicle with any subset of *)
(* the top-level keys signals and user, and two objects without vehicle.   *)
Pick(name, S) == {<<>>} \cup { [k \in {name} |-> x] : x \in S }

Join(f, g) == [k \in DOMAIN f \cup DOMAIN g |-> IF k \in DOMAIN f THEN f[k] ELSE g[k]]

StateDatas ==
    { Join([vehicle |-> v], Join(s, u)) : v \in VehicleInputs,
                                          s \in Pick("signals", SignalLists),
                                          u \in Pick("user", Users) }
    \cup { <<>>, [user |-> "u1"] }

Challenges == { JStr("abc"), JStr("xyz"), JNum(7) }

VerifyDatas == {<<>>} \cup { [challenge |-> c] : c \in Challenges }

Event(type, data) == [eventType |-> type, data |-> data]

Payloads ==
    { <<>>, [eventType |-> "VEHICLE_STATE"], [eventType |-> "VERIFY"] }
    \cup { Event("VERIFY", d) : d \in VerifyDatas }
    \cup { Event("VEHICLE_ERROR", <<>>), Event("VEHICLE_DELETED", <<>>) }
    \cup { Event("VEHICLE_STATE", d) : d \in StateDatas }

(* The bytes rfile.read returns, named by what json.loads makes of them:   *)
(* text that is not JSON, bytes that are not UTF-8, a JSON array, or a     *)
(* JSON object.                                                            *)
Body(kind, obj) == [kind |-> kind, obj |-> obj]

Bodies ==
    { Body("notjson", <<>>), Body("notutf8", <<>>), Body("array", <<>>) }
    \cup { Body("object", p) : p \in Payloads }


-----------------------------------------------------------------------------
(* Dictionaries *)

None == [none |-> TRUE]

(* d[k] on the ordered dict datastore *)
Instances(d) == { d[i].instance : i \in 1..Len(d) }

Lookup(d, vid) == (CHOOSE i \in 1..Len(d) : d[i].instance = vid)

Stored(d, vid) == d[Lookup(d, vid)].ds

(* Variant: every key refers to one shared dict object. *)
SetItem_Shared(d, vid, ds) ==
    LET e == IF vid \in Instances(d) THEN d ELSE Append(d, [instance |-> vid, ds |-> ds])
    IN  [i \in 1..Len(e) |-> [instance |-> e[i].instance, ds |-> ds]]

(* d[vid] = ds: a new key goes to the end, an existing key keeps its place *)
SetItem(d, vid, ds) ==
    IF vid \in Instances(d)
    THEN [d EXCEPT ![Lookup(d, vid)] = [instance |-> vid, ds |-> ds]]
    ELSE Append(d, [instance |-> vid, ds |-> ds])

(* Variant: the incoming data object replaces the stored DataSet. *)
Update_Replace(stored, data) == data

(* Variant: an incoming signals list is appended to the stored one. *)
Update_Extend(stored, data) ==
    [k \in DOMAIN stored \cup DOMAIN data |->
        IF k \notin DOMAIN data THEN stored[k]
        ELSE IF k = "signals" /\ k \in DOMAIN stored /\ stored[k] # data[k]
             THEN stored[k] \o data[k]
             ELSE data[k]]

(* for key in data: stored[key] = data[key] *)
Update(stored, data) ==
    [k \in DOMAIN stored \cup DOMAIN data |->
        IF k \in DOMAIN data THEN data[k] ELSE stored[k]]

-----------------------------------------------------------------------------
(* Signatures *)

(* hmac.new(key, msg, hashlib.sha256).hexdigest(): a fixed function of     *)
(* (key, msg), taken to be collision free.                                 *)
hexdigest(key, msg) == [key |-> key, msg |-> msg]

(* challenge.encode(): the UTF-8 bytes of a str *)
encode(s) == [utf8 |-> s]

-----------------------------------------------------------------------------
(* Requests *)

Present(name, v) == IF v = <<>> THEN {} ELSE {name}

Headers(cl, ct, sc) ==
    [n \in Present("Content-Length", cl) \cup Present("Content-Type", ct)
           \cup Present("SC-Signature", sc) |->
        IF n = "Content-Length" THEN cl[1]
        ELSE IF n = "Content-Type" THEN ct[1] ELSE sc[1]]

(* self.headers[name]: None when the header is absent *)
Header(h, name) == IF name \in DOMAIN h THEN h[name] ELSE None

Post(h, b) == [method |-> "POST", headers |-> h, body |-> b]

Get == [method |-> "GET", headers |-> <<>>, body |-> Body("empty", <<>>)]

Forged == "forged"

(* Well-formed headers with the signature a holder of key k computes. *)
Signed(k, b) == Post(Headers(<<"17">>, <<"application/json">>, <<hexdigest(k, b)>>), b)

StateBody ==
    Body("object", Event("VEHICLE_STATE",
        [vehicle |-> [id |-> "v2", make |-> "TESLA"],
         signals |-> << Sig("closure-islocked", "SUCCESS", JBool(TRUE), 2000) >>]))

VerifyBody == Body("object", Event("VERIFY", [challenge |-> JStr("abc")]))

(* The SC-Signature header a sender puts on body b: none, the digest     *)
(* under the shared key, a digest under another key, or the digest of      *)
(* another body under the shared key.                                      *)
Signature(how, k, b) ==
    CASE how = "absent" -> <<>>
      [] how = "good" -> <<hexdigest(k, b)>>
      [] how = "forged" -> <<hexdigest(Forged, b)>>
      [] how = "replayed" -> <<hexdigest(k, Body("array", <<>>))>>

BadHeaders ==
    { <<<<>>, <<"application/json">>>>, <<<<"17">>, <<>>>>,
      <<<<"17">>, <<"text/plain">>>>, <<<<>>, <<>>>> }

(* POSTs that break one rule of the interface each, and some that break several. *)
BadPosts(k) ==
    { Post(Headers(h[1], h[2], Signature("good", k, StateBody)), StateBody) : h \in BadHeaders }
    \cup { Post(Headers(<<>>, <<"text/plain">>, Signature("forged", k, b)), b) :
             b \in {Body("notjson", <<>>)} }
    \cup { Post(Headers(<<"seventeen">>, <<"application/json">>, Signature("good", k, b)), b) :
             b \in {StateBody, Body("notjson", <<>>)} }
    \cup { Post(Headers(<<"17">>, <<"application/json">>, Signature(how, k, b)), b) :
             how \in {"absent", "forged", "replayed"}, b \in {StateBody, VerifyBody} }
    \cup { Post(Headers(<<"17">>, <<"application/json">>, Signature("forged", k, b)), b) :
             b \in {Body("notjson", <<>>), Body("notutf8", <<>>),
                    Body("object", Event("VEHICLE_DELETED", <<>>))} }

Posts(k) == { Signed(k, b) : b \in Bodies } \cup BadPosts(k)

-----------------------------------------------------------------------------
(* GET: the exposition document *)

Line(kind, name, arg, labels, val, ts) ==
    [kind |-> kind, name |-> name, arg |-> arg, labels |-> labels, val |-> val, ts |-> ts]

(* The gauge table of write_signal: <<code, metric name>> *)
Gauges ==
    << <<"tractionbattery-stateofcharge", "stateofcharge">>,
       <<"odometer-traveleddistance", "odometer">>,
       <<"closure-islocked", "locked">>,
       <<"connectivitystatus-isonline", "online">>,
       <<"connectivitystatus-isasleep", "asleep">>,
       <<"connectivitystatus-isdigitalkeypaired", "digitalkeypaired">> >>

(* f"{val}": the text Python formats a value to *)
Str(v) ==
    CASE v.t = "num" -> ToString(v.n)
      [] v.t = "str" -> v.s
      [] v.t = "bool" -> IF v.b THEN "True" ELSE "False"

(* if val is False: val = 0; if val is True: val = 1 *)
Coerce(val) ==
    IF val = JBool(FALSE) THEN JNum(0)
    ELSE IF val = JBool(TRUE) THEN JNum(1)
    ELSE val

(* Variant: int(x / 1000), which rounds toward zero *)
Timestamp_TowardZero(s) ==
    IF s.meta.oemUpdatedAt < 0
    THEN 0 - ((0 - s.meta.oemUpdatedAt) \div 1000)
    ELSE s.meta.oemUpdatedAt \div 1000

(* f' {s["meta"]["oemUpdatedAt"]//1000}' *)
Timestamp(s) == s.meta.oemUpdatedAt \div 1000

(* The body of the gauge loop for the gauge whose code matches. *)
WriteGauge(s, instance, gauge) ==
    << Line("TYPE", gauge[2], "gauge", <<>>, "", 0) >>
    \o (IF "unit" \in DOMAIN s.body
        THEN << Line("UNIT", gauge[2], s.body.unit, <<>>, "", 0) >>
        ELSE << >>)
    \o << Line("sample", gauge[2], "", [vehicleid |-> instance],
               Str(Coerce(s.body.value)), Timestamp(s)) >>

RECURSIVE GaugeLoop(_, _, _)
GaugeLoop(s, instance, i) ==
    IF i > Len(Gauges) THEN << >>
    ELSE (IF s.code # Gauges[i][1] THEN << >> ELSE WriteGauge(s, instance, Gauges[i]))
         \o GaugeLoop(s, instance, i + 1)

write_signal(s, instance) == GaugeLoop(s, instance, 1)

(* Variant: the status of a signal is not looked at. *)
RECURSIVE SignalLoop_AnyStatus(_, _, _)
SignalLoop_AnyStatus(signals, instance, i) ==
    IF i > Len(signals) THEN << >>
    ELSE write_signal(signals[i], instance) \o SignalLoop_AnyStatus(signals, instance, i + 1)

RECURSIVE SignalLoop(_, _, _)
SignalLoop(signals, instance, i) ==
    IF i > Len(signals) THEN << >>
    ELSE (IF signals[i].status.value # "SUCCESS" THEN << >>
          ELSE write_signal(signals[i], instance))
         \o SignalLoop(signals, instance, i + 1)

(* One round of "for instance in datastore" *)
WriteInstance(instance, ds) ==
    << Line("HELP", "vehicleinfo", "Car info", <<>>, "", 0),
       Line("TYPE", "vehicleinfo", "info", <<>>, "", 0),
       Line("info", "vehicleinfo", "", ds.vehicle, "1", 0) >>
    \o SignalLoop(ds.signals, instance, 1)

RECURSIVE InstanceLoop(_, _)
InstanceLoop(d, i) ==
    IF i > Len(d) THEN << >>
    ELSE WriteInstance(d[i].instance, d[i].ds) \o InstanceLoop(d, i + 1)

(* What a handler leaves behind *)
Result(out, st, resp, doc, d) ==
    [outcome |-> out, steps |-> st, response |-> resp, document |-> doc, datastore |-> d]

(* Variant: the store is emptied once it has been rendered. *)
do_GET_Drains(d) ==
    Result("RESPONDED",
           <<"status 200">> \o (IF d = << >> THEN << >> ELSE <<"write">>),
           << >>, InstanceLoop(d, 1), << >>)

do_GET(d) ==
    Result("RESPONDED",
           <<"status 200">> \o (IF d = << >> THEN << >> ELSE <<"write">>),
           << >>, InstanceLoop(d, 1), d)

-----------------------------------------------------------------------------
(* POST: the webhook *)

Chunk(text, hex) == [text |-> text, hex |-> hex]

Exceptions == {"ValueError", "UnicodeDecodeError", "TypeError", "KeyError", "AttributeError"}

(* An exception leaves do_POST: nothing more is written or stored. *)
Raise(exc, st, d) == Result(exc, st, << >>, << >>, d)

(* fail(response), then return *)
fail(text, st, d) ==
    Result("FAILED", st \o <<"status 503", "write">>, << Chunk(text, << >>) >>, << >>, d)

(* A reply after the 200 header, then return *)
Reply(chunk, st, d) == Result("RESPONDED", st \o <<"write">>, << chunk >>, << >>, d)

check_bail_out_early(headers) ==
    \/ ~ ("Content-Length" \in DOMAIN headers)
    \/ ~ ("Content-Type" \in DOMAIN headers)
    \/ headers["Content-Type"] # "application/json"

(* int(s) returns for decimal text and raises ValueError otherwise *)
IsInt(s) == s \in {"0", "17"}

(* json.loads(data) *)
loads(data) == data.obj

(* Variant: the entry is put in the store before signals is read. *)
VehicleState_InsertFirst(parsed, st, d) ==
    IF ~ ("data" \in DOMAIN parsed) \/ ~ ("vehicle" \in DOMAIN parsed.data)
       \/ ~ ("id" \in DOMAIN parsed.data.vehicle)
    THEN Raise("KeyError", st, d)
    ELSE LET vid == parsed.data.vehicle.id IN
         IF vid \in Instances(d)
         THEN Reply(Chunk("{\"success\":true}", << >>), st \o <<"update">>,
                    SetItem(d, vid, Update(Stored(d, vid), parsed.data)))
         ELSE IF ~ ("signals" \in DOMAIN parsed.data)
         THEN Raise("KeyError", st \o <<"insert">>,
                    SetItem(d, vid, [vehicle |-> parsed.data.vehicle]))
         ELSE LET stored == [signals |-> parsed.data.signals,
                             vehicle |-> parsed.data.vehicle]
              IN Reply(Chunk("{\"success\":true}", << >>), st \o <<"insert", "update">>,
                       SetItem(d, vid, Update(stored, parsed.data)))

(* Variant: the entry is stored under the make of the vehicle. *)
VehicleState_KeyedByMake(parsed, st, d) ==
    IF ~ ("data" \in DOMAIN parsed) \/ ~ ("vehicle" \in DOMAIN parsed.data)
       \/ ~ ("id" \in DOMAIN parsed.data.vehicle)
    THEN Raise("KeyError", st, d)
    ELSE LET vid == parsed.data.vehicle.make IN
         IF vid \in Instances(d)
         THEN Reply(Chunk("{\"success\":true}", << >>), st \o <<"update">>,
                    SetItem(d, vid, Update(Stored(d, vid), parsed.data)))
         ELSE IF ~ ("signals" \in DOMAIN parsed.data)
         THEN Raise("KeyError", st, d)
         ELSE LET stored == [signals |-> parsed.data.signals,
                             vehicle |-> parsed.data.vehicle]
              IN Reply(Chunk("{\"success\":true}", << >>), st \o <<"insert", "update">>,
                       SetItem(d, vid, Update(stored, parsed.data)))

(* Variant: a new entry is made of whatever keys data has. *)
VehicleState_NoSignals(parsed, st, d) ==
    IF ~ ("data" \in DOMAIN parsed) \/ ~ ("vehicle" \in DOMAIN parsed.data)
       \/ ~ ("id" \in DOMAIN parsed.data.vehicle)
    THEN Raise("KeyError", st, d)
    ELSE LET vid == parsed.data.vehicle.id IN
         IF vid \in Instances(d)
         THEN Reply(Chunk("{\"success\":true}", << >>), st \o <<"update">>,
                    SetItem(d, vid, Update(Stored(d, vid), parsed.data)))
         ELSE Reply(Chunk("{\"success\":true}", << >>), st \o <<"insert", "update">>,
                    SetItem(d, vid, parsed.data))

(* The VEHICLE_STATE branch, lines 301-314 *)
VehicleState(parsed, st, d) ==
    IF ~ ("data" \in DOMAIN parsed) \/ ~ ("vehicle" \in DOMAIN parsed.data)
       \/ ~ ("id" \in DOMAIN parsed.data.vehicle)
    THEN Raise("KeyError", st, d)
    ELSE LET vid == parsed.data.vehicle.id IN
         IF vid \in Instances(d)
         THEN Reply(Chunk("{\"success\":true}", << >>), st \o <<"update">>,
                    SetItem(d, vid, Update(Stored(d, vid), parsed.data)))
         ELSE IF ~ ("signals" \in DOMAIN parsed.data)
         THEN Raise("KeyError", st, d)
         ELSE LET stored == [signals |-> parsed.data.signals,
                             vehicle |-> parsed.data.vehicle]
              IN Reply(Chunk("{\"success\":true}", << >>), st \o <<"insert", "update">>,
                       SetItem(d, vid, Update(stored, parsed.data)))

(* Variant: the digest of the request body is returned, not that of the challenge. *)
Verify_SignsBody(parsed, key, st, d) ==
    IF ~ ("data" \in DOMAIN parsed) \/ ~ ("challenge" \in DOMAIN parsed.data)
    THEN Raise("KeyError", st, d)
    ELSE LET challenge == parsed.data.challenge IN
         IF challenge.t # "str"
         THEN Raise("AttributeError", st, d)
         ELSE Reply(Chunk("{\"challenge\": \"%s\"}", << hexdigest(key, Body("object", parsed)) >>),
                    st, d)

(* The VERIFY branch, lines 279-286 *)
Verify(parsed, key, st, d) ==
    IF ~ ("data" \in DOMAIN parsed) \/ ~ ("challenge" \in DOMAIN parsed.data)
    THEN Raise("KeyError", st, d)
    ELSE LET challenge == parsed.data.challenge IN
         IF challenge.t # "str"
         THEN Raise("AttributeError", st, d)
         ELSE Reply(Chunk("{\"challenge\": \"%s\"}", << hexdigest(key, encode(challenge.s)) >>),
                    st, d)

(* Lines 270-314: what follows the two bail-out checks *)
Dispatch(post_data, key, d) ==
    LET parsed == loads(post_data)
        st == <<"status 200">>
    IN  IF post_data.kind # "object" THEN Raise("TypeError", st, d)
        ELSE IF ~ ("eventType" \in DOMAIN parsed) THEN Raise("KeyError", st, d)
        ELSE IF parsed.eventType = "VERIFY" THEN Verify(parsed, key, st, d)
        ELSE IF parsed.eventType = "VEHICLE_ERROR"
             THEN Reply(Chunk("{\"acknowledged\":true}", << >>), st, d)
        ELSE IF parsed.eventType # "VEHICLE_STATE"
             THEN fail("{error=\"ignoring unknown eventType\"\n", st, d)
        ELSE VehicleState(parsed, st, d)

(* Variant: the digest is computed under another key than amt. *)
check_bail_out_read_OtherKey(headers, data, key, d) ==
    IF data.kind = "notjson"
    THEN fail("{error=\"weird json\"}\n", << >>, d)
    ELSE IF data.kind = "notutf8"
    THEN Raise("UnicodeDecodeError", << >>, d)
    ELSE LET scsign == Header(headers, "SC-Signature")
             bodyhash == hexdigest(Forged, data)
         IN  IF scsign # bodyhash
             THEN fail("{error=\"mismatched signage\"}\n", << >>, d)
             ELSE Result("pass", << >>, << >>, << >>, d)

(* Returns the failure written, the exception raised, or "pass" for False *)
check_bail_out_read(headers, data, key, d) ==
    IF data.kind = "notjson"
    THEN fail("{error=\"weird json\"}\n", << >>, d)
    ELSE IF data.kind = "notutf8"
    THEN Raise("UnicodeDecodeError", << >>, d)
    ELSE LET scsign == Header(headers, "SC-Signature")
             bodyhash == hexdigest(key, data)
         IN  IF scsign # bodyhash
             THEN fail("{error=\"mismatched signage\"}\n", << >>, d)
             ELSE Result("pass", << >>, << >>, << >>, d)

(* post_data = self.rfile.read(content_length) comes before what res did. *)
Read(res) == [res EXCEPT !.steps = <<"read">> \o @]

(* Variant: the event is dispatched before its signature is compared. *)
do_POST_DispatchFirst(r, key, d) ==
    IF check_bail_out_early(r.headers)
    THEN fail("{error=\"weird post\"}\n", << >>, d)
    ELSE IF ~ IsInt(r.headers["Content-Length"])
    THEN Raise("ValueError", << >>, d)
    ELSE LET post_data == r.body
             bail == check_bail_out_read(r.headers, post_data, key, d)
         IN  IF bail.outcome = "pass" THEN Read(Dispatch(post_data, key, d))
             ELSE IF post_data.kind = "object"
             THEN Read([bail EXCEPT !.datastore = Dispatch(post_data, key, d).datastore])
             ELSE Read(bail)

do_POST(r, key, d) ==
    IF check_bail_out_early(r.headers)
    THEN fail("{error=\"weird post\"}\n", << >>, d)
    ELSE IF ~ IsInt(r.headers["Content-Length"])
    THEN Raise("ValueError", << >>, d)
    ELSE LET post_data == r.body
             bail == check_bail_out_read(r.headers, post_data, key, d)
         IN  IF bail.outcome # "pass" THEN Read(bail)
             ELSE Read(Dispatch(post_data, key, d))

-----------------------------------------------------------------------------
(* The server *)

NoRequest == [method |-> "none", headers |-> << >>, body |-> Body("empty", << >>)]

NoMerge == [vid |-> "", data |-> << >>, before |-> << >>]

(* No GET yet.  clean: no VEHICLE_STATE event was accepted since that GET. *)
NoScrape == [done |-> FALSE, document |-> << >>, clean |-> FALSE]

(* The request passed both bail-out checks of do_POST. *)
Accepted(r, key) ==
    /\ r.method = "POST"
    /\ ~ check_bail_out_early(r.headers)
    /\ IsInt(r.headers["Content-Length"])
    /\ r.body.kind \in {"array", "object"}
    /\ Header(r.headers, "SC-Signature") = hexdigest(key, r.body)

IsEvent(r, type) ==
    /\ r.body.kind = "object"
    /\ "eventType" \in DOMAIN r.body.obj
    /\ r.body.obj.eventType = type

(* The request is a VEHICLE_STATE event from which data.vehicle.id can be read. *)
Names(r) ==
    /\ IsEvent(r, "VEHICLE_STATE")
    /\ "data" \in DOMAIN r.body.obj
    /\ "vehicle" \in DOMAIN r.body.obj.data
    /\ "id" \in DOMAIN r.body.obj.data.vehicle

NamedId(r) == r.body.obj.data.vehicle.id

(* The last request was a VEHICLE_STATE event that ran to its success reply. *)
Merged == Accepted(request, amt) /\ Names(request) /\ outcome = "RESPONDED"

Init ==
    /\ amt \in Secrets
    /\ datastore = << >>
    /\ request = NoRequest
    /\ steps = << >>
    /\ response = << >>
    /\ document = << >>
    /\ outcome = "none"
    /\ before = << >>
    /\ merged = NoMerge
    /\ named = {}
    /\ firstNamed = << >>
    /\ scraped = NoScrape
    /\ handled = 0

Handle(r, res) ==
    /\ handled' = handled + 1
    /\ request' = r
    /\ before' = datastore
    /\ datastore' = res.datastore
    /\ steps' = res.steps
    /\ response' = res.response
    /\ document' = res.document
    /\ outcome' = res.outcome
    /\ merged' = IF Merged
                 THEN [vid |-> NamedId(request), data |-> request.body.obj.data,
                       before |-> before]
                 ELSE merged
    /\ named' = IF Accepted(r, amt) /\ Names(r) THEN named \cup {NamedId(r)} ELSE named
    /\ firstNamed' = IF Accepted(r, amt) /\ Names(r) /\ NamedId(r) \notin named
                     THEN Append(firstNamed, NamedId(r))
                     ELSE firstNamed
    /\ scraped' = IF request.method = "GET"
                  THEN [done |-> TRUE, document |-> document, clean |-> TRUE]
                  ELSE IF Accepted(request, amt) /\ IsEvent(request, "VEHICLE_STATE")
                  THEN [scraped EXCEPT !.clean = FALSE]
                  ELSE scraped
    /\ UNCHANGED amt

DoGET ==
    /\ handled < MaxRequests
    /\ Handle(Get, do_GET(datastore))

DoPOST ==
    /\ handled < MaxRequests
    /\ \E r \in Posts(amt) : Handle(r, do_POST(r, amt, datastore))

Next == DoGET \/ DoPOST

Spec == Init /\ [][Next]_vars

-----------------------------------------------------------------------------
(* Vocabulary of the properties *)

IsPost == request.method = "POST"

(* The status lines the last handler wrote, in order *)
Status == SelectSeq(steps, LAMBDA x : x \in {"status 200", "status 503"})

Faulted == outcome \in Exceptions

(* The last request passed the checks and named a vehicle. *)
NamedVehicle == Accepted(request, amt) /\ Names(request)

(* The entry of vid in store d, or the empty dict when vid is not a key *)
Entry(d, vid) == IF vid \in Instances(d) THEN Stored(d, vid) ELSE << >>

-----------------------------------------------------------------------------
(* C1: a POST answered with a failure response leaves the store exactly as *)
(* it was when the request arrived, so a GET after it renders the document *)
(* a GET before it rendered.                                               *)
C1_FailedPostKeepsStore ==
    (IsPost /\ outcome = "FAILED") =>
        /\ datastore = before
        /\ do_GET(datastore).document = do_GET(before).document

(* A VEHICLE_STATE event for a new vehicle is refused for its signature    *)
(* while another vehicle is stored.                                        *)
C1_Witness ==
    /\ IsPost /\ outcome = "FAILED"
    /\ ~ check_bail_out_early(request.headers)
    /\ Names(request)
    /\ NamedId(request) \notin Instances(datastore)
    /\ datastore # << >>

(* C3: a VEHICLE_STATE event naming A leaves every other vehicle B as it   *)
(* was: B is neither added nor removed and its DataSet is unchanged.       *)
C3_Isolation ==
    NamedVehicle =>
        \A B \in VehicleIds \ {NamedId(request)} :
            /\ B \in Instances(datastore) <=> B \in Instances(before)
            /\ Entry(datastore, B) = Entry(before, B)

(* An event for one vehicle was merged while another vehicle was stored. *)
C3_Witness ==
    /\ Merged
    /\ NamedId(request) \in Instances(before)
    /\ Stored(datastore, NamedId(request)) # Stored(before, NamedId(request))
    /\ \E B \in Instances(before) : B # NamedId(request)

(* C4: an accepted POST with an unknown eventType gets 503 as its one      *)
(* status line, the unknown-eventType error as body, and no store change.  *)
UnknownEvent ==
    /\ Accepted(request, amt)
    /\ request.body.kind = "object"
    /\ "eventType" \in DOMAIN request.body.obj
    /\ request.body.obj.eventType \notin {"VERIFY", "VEHICLE_ERROR", "VEHICLE_STATE"}

C4_UnknownEventIs503 ==
    UnknownEvent =>
        /\ Status = <<"status 503">>
        /\ outcome = "FAILED"
        /\ response = << Chunk("{error=\"ignoring unknown eventType\"\n", << >>) >>
        /\ datastore = before

(* C5: every POST ends in RESPONDED or FAILED; no exception leaves do_POST. *)
C5_NoFaultEscapes == IsPost => outcome \in {"RESPONDED", "FAILED"}

(* C6: the ids in the store are the ids named by the VEHICLE_STATE events  *)
(* accepted so far, each once, and no request removes one.                 *)
C6_StoreHoldsNamedIds ==
    /\ Instances(datastore) = named
    /\ Cardinality(Instances(datastore)) = Len(datastore)
    /\ Instances(before) \subseteq Instances(datastore)

-----------------------------------------------------------------------------
(* Two VEHICLE_STATE events for one vehicle: P1 is the event merged last   *)
(* before the request handled last, P2 is that request.                    *)
TwoMerges == Merged /\ merged.vid = NamedId(request)

-----------------------------------------------------------------------------
(* The gauge table of the specification, section 4.4 *)
MetricName ==
    [c \in {"tractionbattery-stateofcharge", "odometer-traveleddistance",
            "closure-islocked", "connectivitystatus-isonline",
            "connectivitystatus-isasleep", "connectivitystatus-isdigitalkeypaired"} |->
        CASE c = "tractionbattery-stateofcharge" -> "stateofcharge"
          [] c = "odometer-traveleddistance" -> "odometer"
          [] c = "closure-islocked" -> "locked"
          [] c = "connectivitystatus-isonline" -> "online"
          [] c = "connectivitystatus-isasleep" -> "asleep"
          [] c = "connectivitystatus-isdigitalkeypaired" -> "digitalkeypaired"]

(* The sample lines of a document that carry the label vehicleid = vid *)
Samples(doc, vid) ==
    SelectSeq(doc, LAMBDA l : l.kind = "sample" /\ l.labels = [vehicleid |-> vid])

(* The signals of a list that the specification has rendered *)
Rendered(signals) ==
    SelectSeq(signals, LAMBDA g : g.status.value = "SUCCESS" /\ g.code \in DOMAIN MetricName)

(* The value text and the timestamp of the sample of signal g *)
ValueText(g) ==
    IF g.body.value = JBool(TRUE) THEN "1"
    ELSE IF g.body.value = JBool(FALSE) THEN "0"
    ELSE IF g.body.value.t = "num" THEN ToString(g.body.value.n)
    ELSE g.body.value.s

Seconds(g) ==
    CHOOSE q \in -2000..2000 :
        q * 1000 <= g.meta.oemUpdatedAt /\ g.meta.oemUpdatedAt < (q + 1) * 1000

(* The sample lines are, one for one and in order, those of the signals.   *)
SamplesMatch(lines, signals, vid) ==
    /\ Len(lines) = Len(signals)
    /\ \A i \in 1..Len(lines) :
           /\ lines[i].name = MetricName[signals[i].code]
           /\ lines[i].labels = [vehicleid |-> vid]
           /\ lines[i].val = ValueText(signals[i])
           /\ lines[i].ts = Seconds(signals[i])

(* C7: the document of a GET has, per vehicle, exactly one sample line for *)
(* each stored signal with status SUCCESS and a code of the gauge table,   *)
(* and no sample line for any other signal or any other vehicle id.        *)
C7_RenderingCompleteness ==
    request.method = "GET" =>
        /\ \A i \in 1..Len(datastore) :
               SamplesMatch(Samples(document, datastore[i].instance),
                            Rendered(datastore[i].ds.signals), datastore[i].instance)
        /\ \A j \in 1..Len(document) :
               document[j].kind = "sample" =>
                   document[j].labels.vehicleid \in Instances(datastore)

(* A GET rendered a vehicle whose list has a failed signal, a signal with  *)
(* a code outside the table, and signals that are rendered.                *)
C7_Witness ==
    /\ request.method = "GET"
    /\ \E i \in 1..Len(datastore) :
           LET signals == datastore[i].ds.signals IN
           /\ \E k \in 1..Len(signals) : signals[k].status.value # "SUCCESS"
           /\ \E k \in 1..Len(signals) : signals[k].code \notin DOMAIN MetricName
           /\ Len(Samples(document, datastore[i].instance)) >= 2

(* C8: after P1 and then P2 with a signals list, both merged for V, a GET  *)
(* renders for V the samples of P2's signals and nothing of the signals    *)
(* stored before P2.                                                       *)
C8_SignalsReplaced ==
    (/\ request.method = "GET"
     /\ merged.vid \in Instances(merged.before)
     /\ "signals" \in DOMAIN merged.data) =>
        SamplesMatch(Samples(document, merged.vid), Rendered(merged.data.signals), merged.vid)

(* The GET follows an event that replaced a list with rendered signals by  *)
(* another list.                                                           *)
C8_Witness ==
    /\ request.method = "GET"
    /\ merged.vid \in Instances(merged.before)
    /\ "signals" \in DOMAIN merged.data
    /\ Stored(merged.before, merged.vid).signals # merged.data.signals
    /\ Rendered(Stored(merged.before, merged.vid).signals) # << >>
    /\ Samples(document, merged.vid) # << >>

-----------------------------------------------------------------------------
(* The failure written for a signature that does not match *)
MismatchFailure ==
    /\ outcome = "FAILED"
    /\ response = << Chunk("{error=\"mismatched signage\"}\n", << >>) >>

(* C9: a POST with Content-Length, Content-Type application/json, a body   *)
(* that parses as JSON and SC-Signature = sign(secret, rawBody) is never   *)
(* answered with the signature-mismatch failure, whatever the secret.      *)
C9_SignatureRoundTrip ==
    (/\ IsPost
     /\ ~ check_bail_out_early(request.headers)
     /\ request.body.kind \in {"array", "object"}
     /\ Header(request.headers, "SC-Signature") = hexdigest(amt, request.body)) =>
        ~ MismatchFailure

(* A correctly signed event was dispatched under the second secret. *)
C9_Witness ==
    /\ amt = "hunter2"
    /\ Accepted(request, amt)
    /\ outcome = "RESPONDED"
    /\ Status = <<"status 200">>

(* The reply to a VERIFY event, as a function of secret and challenge only *)
VerifyReply(secret, challenge) ==
    << Chunk("{\"challenge\": \"%s\"}", << hexdigest(secret, encode(challenge)) >>) >>

StringChallenge ==
    /\ Accepted(request, amt)
    /\ IsEvent(request, "VERIFY")
    /\ "data" \in DOMAIN request.body.obj
    /\ "challenge" \in DOMAIN request.body.obj.data
    /\ request.body.obj.data.challenge.t = "str"

(* C10: an accepted VERIFY event with a string challenge is answered with  *)
(* status 200 and {"challenge": sign(secret, challenge)}, in every store   *)
(* and after every history of requests.                                    *)
C10_VerifyIsPure ==
    StringChallenge =>
        /\ Status = <<"status 200">>
        /\ outcome = "RESPONDED"
        /\ response = VerifyReply(amt, request.body.obj.data.challenge.s)

(* A VERIFY event answered after two vehicles were stored. *)
C10_Witness ==
    /\ StringChallenge
    /\ Len(datastore) = 2
    /\ outcome = "RESPONDED"

-----------------------------------------------------------------------------
(* The first check of do_POST the last request does not pass *)
BadHeader == IsPost /\ check_bail_out_early(request.headers)

(* The headers pass and the body read is not a JSON text. *)
BadBody ==
    /\ IsPost /\ ~ check_bail_out_early(request.headers)
    /\ request.body.kind \in {"notjson", "notutf8"}

(* Headers and body pass and SC-Signature is not sign(secret, rawBody). *)
BadSignature ==
    /\ IsPost /\ ~ check_bail_out_early(request.headers)
    /\ request.body.kind \in {"array", "object"}
    /\ Header(request.headers, "SC-Signature") # hexdigest(amt, request.body)

(* The error bodies of the interface table, specification section 6 *)
TableBody ==
    IF BadHeader THEN "{\"error\":\"weird post\"}"
    ELSE IF BadBody THEN "{\"error\":\"weird json\"}"
    ELSE IF BadSignature THEN "{\"error\":\"mismatched signage\"}"
    ELSE "{\"error\":\"ignoring unknown eventType\"}"

(* C11: a failing POST is answered with the JSON object the interface      *)
(* table gives for its failure reason.                                     *)
C11_FailureBodies ==
    (IsPost /\ outcome = "FAILED") => response = << Chunk(TableBody, << >>) >>

(* What fail() was called with, per reason, in scp.py *)
Failure(text) == outcome = "FAILED" /\ response = << Chunk(text, << >>) >>

(* C12: the checks run in the order headers, body read, JSON parse,        *)
(* signature, event type, and the request is rejected with the reason of   *)
(* the first check it fails: bad headers before the body is read, a body   *)
(* that is not JSON whatever the signature, a wrong signature whatever the *)
(* eventType.                                                              *)
C12_FirstFailedCheck ==
    /\ BadHeader =>
           Failure("{error=\"weird post\"}\n") /\ steps = <<"status 503", "write">>
    /\ BadBody =>
           Failure("{error=\"weird json\"}\n") /\ steps = <<"read", "status 503", "write">>
    /\ BadSignature =>
           Failure("{error=\"mismatched signage\"}\n")
           /\ steps = <<"read", "status 503", "write">>

(* Position of the first occurrence of x in sequence q, 0 when absent *)
First(q, x) ==
    IF \E i \in 1..Len(q) : q[i] = x
    THEN CHOOSE i \in 1..Len(q) : q[i] = x /\ \A j \in 1..(i - 1) : q[j] # x
    ELSE 0

(* C13: a POST writes the 200 status only after the event was dispatched:  *)
(* the request is a VERIFY, VEHICLE_ERROR or VEHICLE_STATE event whose     *)
(* dispatch completed, and for VEHICLE_STATE the merge precedes the 200.   *)
C13_StatusAfterDispatch ==
    (IsPost /\ First(steps, "status 200") > 0) =>
        /\ outcome = "RESPONDED"
        /\ \/ IsEvent(request, "VERIFY")
           \/ IsEvent(request, "VEHICLE_ERROR")
           \/ IsEvent(request, "VEHICLE_STATE")
        /\ IsEvent(request, "VEHICLE_STATE") =>
               /\ First(steps, "update") > 0
               /\ First(steps, "update") < First(steps, "status 200")

-----------------------------------------------------------------------------
(* The positions of the sample lines of vid in a document *)
Positions(doc, vid) ==
    SelectSeq([j \in 1..Len(doc) |-> j],
              LAMBDA j : doc[j].kind = "sample" /\ doc[j].labels = [vehicleid |-> vid])

(* C14: the sample of a rendered signal has value 1 for true, 0 for false  *)
(* and the value itself otherwise, timestamp oemUpdatedAt div 1000 rounded *)
(* toward minus infinity, and a UNIT line if and only if the body has unit. *)
C14_ValueTimestampUnit ==
    request.method = "GET" =>
        /\ \A i \in 1..Len(datastore) :
               LET pos == Positions(document, datastore[i].instance)
                   sigs == Rendered(datastore[i].ds.signals)
               IN  /\ Len(pos) = Len(sigs)
                   /\ \A k \in 1..Len(pos) :
                          LET line == document[pos[k]]
                              prev == document[pos[k] - 1]
                          IN  /\ line.val = ValueText(sigs[k])
                              /\ line.ts = Seconds(sigs[k])
                              /\ prev.kind = "UNIT" <=> "unit" \in DOMAIN sigs[k].body
                              /\ prev.kind = "UNIT" =>
                                     /\ prev.name = MetricName[sigs[k].code]
                                     /\ prev.arg = sigs[k].body.unit
        /\ \A j \in 1..Len(document) :
               document[j].kind = "UNIT" =>
                   j < Len(document) /\ document[j + 1].kind = "sample"

(* A document with a sample of false before the epoch, a string value, a   *)
(* UNIT line and a sample without one.                                     *)
C14_Witness ==
    /\ request.method = "GET"
    /\ \E j \in 1..Len(document) :
           document[j].kind = "sample" /\ document[j].val = "0" /\ document[j].ts = -1
    /\ \E j \in 1..Len(document) : document[j].kind = "sample" /\ document[j].val = "yes"
    /\ \E j \in 1..Len(document) : document[j].kind = "UNIT"
    /\ \E j \in 2..Len(document) :
           document[j].kind = "sample" /\ document[j - 1].kind = "TYPE"

(* An accepted VEHICLE_STATE event *)
AcceptedState == Accepted(request, amt) /\ IsEvent(request, "VEHICLE_STATE")

(* C15: GET, an accepted VERIFY and an accepted VEHICLE_ERROR leave the    *)
(* store as it was; only an accepted VEHICLE_STATE event changes it; two   *)
(* GETs with no accepted VEHICLE_STATE between them give the same document. *)
C15_OnlyVehicleStateWrites ==
    /\ (\/ request.method = "GET"
        \/ Accepted(request, amt) /\ IsEvent(request, "VERIFY")
        \/ Accepted(request, amt) /\ IsEvent(request, "VEHICLE_ERROR")) =>
           datastore = before
    /\ datastore # before => AcceptedState
    /\ (request.method = "GET" /\ scraped.done /\ scraped.clean) =>
           document = scraped.document

(* A second GET of a store that holds a vehicle *)
C15_Witness ==
    /\ request.method = "GET"
    /\ scraped.done /\ scraped.clean
    /\ scraped.document # << >>
    /\ datastore # << >>

-----------------------------------------------------------------------------
(* The vehicles of a document in the order of their vehicleinfo lines *)
InfoLines(doc) == SelectSeq(doc, LAMBDA l : l.kind = "info")

(* The positions of the vehicleinfo lines of a document *)
InfoPositions(doc) == SelectSeq([j \in 1..Len(doc) |-> j], LAMBDA j : doc[j].kind = "info")

(* C16: GET renders the vehicles in the order in which they were first     *)
(* named by an accepted VEHICLE_STATE event; a later event for a stored    *)
(* vehicle keeps its position; the samples of a vehicle follow its         *)
(* vehicleinfo line, in the order of the stored signals.                   *)
C16_InsertionOrder ==
    /\ LET info == InfoLines(do_GET(datastore).document) IN
       \A i, j \in 1..Len(info) :
           i < j <=> First(firstNamed, info[i].labels.id) < First(firstNamed, info[j].labels.id)
    /\ \A i \in 1..Len(before) : datastore[i].instance = before[i].instance
    /\ request.method = "GET" =>
           LET at == InfoPositions(document) IN
           /\ Len(at) = Len(datastore)
           /\ \A i \in 1..Len(at) :
                  /\ document[at[i]].labels = datastore[i].ds.vehicle
                  /\ SamplesMatch(Samples(document, datastore[i].instance),
                                  Rendered(datastore[i].ds.signals), datastore[i].instance)
                  /\ \A p \in 1..Len(Positions(document, datastore[i].instance)) :
                         LET q == Positions(document, datastore[i].instance)[p] IN
                         /\ at[i] < q
                         /\ i < Len(at) => q < at[i + 1]

(* The last request is an accepted VEHICLE_STATE event that lacks a field  *)
(* do_POST reads: data, data.vehicle, data.vehicle.id, or data.signals for *)
(* an id that is not in the store.                                         *)
LacksField ==
    /\ AcceptedState
    /\ \/ ~ Names(request)
       \/ /\ NamedId(request) \notin Instances(before)
          /\ "signals" \notin DOMAIN request.body.obj.data

(* C17: such an event faults and leaves the store as it was, with no       *)
(* partly created entry; an event without signals for a stored id is       *)
(* merged and the stored signals stay.                                     *)
C17_FaultKeepsStore ==
    /\ LacksField => Faulted /\ datastore = before
    /\ (/\ NamedVehicle
        /\ NamedId(request) \in Instances(before)
        /\ "signals" \notin DOMAIN request.body.obj.data) =>
           /\ outcome = "RESPONDED"
           /\ Stored(datastore, NamedId(request)).signals
                  = Stored(before, NamedId(request)).signals
           /\ Stored(datastore, NamedId(request)).vehicle = request.body.obj.data.vehicle

(* An event without signals for a new id faulted while a vehicle was stored. *)
C17_Witness ==
    /\ LacksField /\ Names(request)
    /\ Faulted
    /\ datastore # << >>

(* C18: every entry of the store is keyed by the id of its vehicle. *)
C18_KeyIsVehicleId ==
    \A i \in 1..Len(datastore) : datastore[i].ds.vehicle.id = datastore[i].instance

(* A later event replaced the vehicle of a stored entry. *)
C18_Witness ==
    /\ Merged
    /\ NamedId(request) \in Instances(before)
    /\ Stored(before, NamedId(request)).vehicle # Stored(datastore, NamedId(request)).vehicle

(* C19: every stored DataSet has the keys vehicle and signals, and no      *)
(* request takes a top-level key away from an entry.                       *)
C19_VehicleAndSignals ==
    /\ \A i \in 1..Len(datastore) : {"vehicle", "signals"} \subseteq DOMAIN datastore[i].ds
    /\ \A i \in 1..Len(before) :
           /\ i <= Len(datastore)
           /\ DOMAIN before[i].ds \subseteq DOMAIN datastore[i].ds
           /\ Cardinality(DOMAIN before[i].ds) <= Cardinality(DOMAIN datastore[i].ds)

(* An event that carries only vehicle was merged into an entry of three keys. *)
C19_Witness ==
    /\ Merged
    /\ DOMAIN request.body.obj.data = {"vehicle"}
    /\ DOMAIN Stored(datastore, NamedId(request)) = {"vehicle", "signals", "user"}

====
